---- MODULE Spec2Model ----
(***************************************************************************)
(* Model of the Ansible module blk_filter                                  *)
(* (ansible_collections/amarao/blk/plugins/modules/blk_filter.py).         *)
(*                                                                         *)
(* One invocation of the module is one behaviour: BlkFilter.run builds the *)
(* lsblk command line and runs it, every element of blockdevices goes      *)
(* through BlkFilter._filter, and exit_json emits the three result lists.  *)
(* fail_json and an uncaught Python exception both end the invocation.     *)
(***************************************************************************)
EXTENDS Naturals, Sequences, FiniteSets, TLC

\* Longest list of top-level devices lsblk reports in the model.
MaxDevs == 2

(***************************************************************************)
(* Python values.  A value carries its type, so that None, "", [] and      *)
(* False stay distinct and bool() is computed as Python computes it.       *)
(***************************************************************************)
PyNone == [t |-> "NoneType"]

PyBool(b) == [t |-> "bool", b |-> b]

PyStr(s) == [t |-> "str", s |-> s]

PyList(l) == [t |-> "list", l |-> l]

\* bool(v): None, False, "" and [] are falsy.
bool(v) ==
    CASE v.t = "NoneType" -> FALSE
      [] v.t = "bool" -> v.b
      [] v.t = "str" -> v.s # ""
      [] v.t = "list" -> v.l # <<>>

\* dict.get(key): the value, or None when the key is absent.
dict_get(d, key) == IF key \in DOMAIN d THEN d[key] ELSE PyNone

\* str.startswith(prefix)
startswith(s, prefix) ==
    /\ Len(s) >= Len(prefix)
    /\ SubSeq(s, 1, Len(prefix)) = prefix

(***************************************************************************)
(* The host: the block devices lsblk can report (one JSON object each, as  *)
(* `lsblk -O --json` prints them: a device without partitions has no       *)
(* "children" key, an unmounted one has mountpoint null) and what wipefs   *)
(* and lsof answer for each of them (rc, stdout, stderr).                  *)
(***************************************************************************)
DevNames == {"sda", "sr0", "sdb", "sdc", "sdd", "sde", "loop0", "sdf"}

BlockDevice ==
    [n \in DevNames |->
        CASE n = "sda" -> [name |-> PyStr("sda"), type |-> PyStr("disk"),
                           mountpoint |-> PyNone]
          [] n = "sr0" -> [name |-> PyStr("sr0"), type |-> PyStr("rom"),
                           children |-> PyList(<<>>), mountpoint |-> PyNone]
          [] n = "sdb" -> [name |-> PyStr("sdb"), type |-> PyStr("disk"),
                           children |-> PyList(<<>>),
                           mountpoint |-> PyStr("/mnt/data")]
          [] n = "sdc" -> [name |-> PyStr("sdc"), type |-> PyStr("disk"),
                           children |-> PyList(<<"sdc1">>),
                           mountpoint |-> PyStr("")]
          [] n = "sdd" -> [name |-> PyStr("sdd"), type |-> PyStr("disk"),
                           children |-> PyList(<<>>), mountpoint |-> PyStr("")]
          [] n = "sde" -> [name |-> PyStr("sde"), type |-> PyStr("disk"),
                           mountpoint |-> PyNone]
          [] n = "loop0" -> [name |-> PyStr("loop0"), type |-> PyStr("loop"),
                             mountpoint |-> PyStr("/snap/core")]
          [] n = "sdf" -> [name |-> PyStr("sdf"), type |-> PyStr("disk"),
                           mountpoint |-> PyNone]]

WipefsHost ==
    [n \in DevNames |->
        CASE n = "sda" -> [rc |-> 0, out |-> "", err |-> ""]
          [] n = "sr0" -> [rc |-> 0, out |-> "", err |-> ""]
          [] n = "sdb" -> [rc |-> 0, out |-> "0x438 ext4", err |-> ""]
          [] n = "sdc" -> [rc |-> 1, out |-> "", err |-> "no such device"]
          [] n = "sdd" -> [rc |-> 0, out |-> "0x1fe dos", err |-> ""]
          [] n = "sde" -> [rc |-> 0, out |-> "", err |-> ""]
          [] n = "loop0" -> [rc |-> 1, out |-> "0x0 squashfs", err |-> ""]
          [] n = "sdf" -> [rc |-> 0, out |-> "0x1fe dos", err |-> ""]]

LsofHost ==
    [n \in DevNames |->
        CASE n = "sda" -> [rc |-> 0, out |-> "", err |-> ""]
          [] n = "sr0" -> [rc |-> 1, out |-> "", err |-> ""]
          [] n = "sdb" -> [rc |-> 0, out |-> "COMMAND PID", err |-> ""]
          [] n = "sdc" -> [rc |-> 0, out |-> "", err |-> ""]
          [] n = "sdd" -> [rc |-> 1, out |-> "", err |-> "lsof: WARNING"]
          [] n = "sde" -> [rc |-> 0, out |-> "", err |-> "lsof: WARNING"]
          [] n = "loop0" -> [rc |-> 1, out |-> "COMMAND PID", err |-> ""]
          [] n = "sdf" -> [rc |-> 0, out |-> "", err |-> ""]]

\* The lists of top-level devices lsblk may print: distinct devices, any order.
DevLists ==
    { l \in UNION { [1..n -> DevNames] : n \in 0..MaxDevs } :
        \A i, j \in DOMAIN l : i # j => l[i] # l[j] }

\* What running lsblk can give: a non-zero exit, output that is not JSON, or
\* the document {"blockdevices": [...]}.
LsblkResults ==
    { [rc |-> 32, out |-> [json |-> FALSE, text |-> ""],
       err |-> "lsblk: not a block device"],
      [rc |-> 0, out |-> [json |-> FALSE, text |-> "{not json"], err |-> ""] }
    \cup
    { [rc |-> 0,
       out |-> [json |-> TRUE,
                doc |-> [blockdevices |-> [i \in DOMAIN l |-> BlockDevice[l[i]]]]],
       err |-> ""] : l \in DevLists }

(***************************************************************************)
(* The task's arguments and AnsibleModule's params.                        *)
(***************************************************************************)
FlagNames == {"is_used", "is_blank", "is_open", "is_rom"}

FlagValues == {PyNone, PyBool(TRUE), PyBool(FALSE)}

\* How a task names its devices: not at all, or under `name` or one of its
\* aliases, as a list or as one string.
NameArgs ==
    { [key |-> "none", value |-> PyNone],
      [key |-> "name", value |-> PyList(<<"sda", "/dev/sdb">>)],
      [key |-> "device", value |-> PyList(<<"/dev/sdb", "sda">>)],
      [key |-> "device", value |-> PyStr("/dev/sdb")],
      [key |-> "devices", value |-> PyList(<<"sda", "/dev/sdb">>)],
      [key |-> "devices", value |-> PyStr("sdc")] }

Tasks == [flags : [FlagNames -> FlagValues], names : NameArgs]

\* The 'list' type of the argument spec: a list stays, a string becomes a
\* one-element list.
type_list(v) == IF v.t = "str" THEN PyList(<<v.s>>) ELSE v

\* module.params as AnsibleModule builds it from main's argument_spec: every
\* option of the spec is a key (None when the task does not give it), the
\* value given under an alias is copied, type-checked, to `name`, and the
\* alias the task used stays in params as a key of its own with the value
\* as given.
AnsibleModule(task) ==
    [k \in FlagNames \cup {"name"} \cup ({task.names.key} \ {"none"}) |->
        IF k \in FlagNames THEN task.flags[k]
        ELSE IF k = "name"
             THEN IF task.names.key = "none" THEN PyNone
                  ELSE type_list(task.names.value)
             ELSE task.names.value]

VARIABLES
    params,           \* self.module.params
    lsblk_host,       \* what lsblk answers in this invocation
    pc,               \* "run", "filter", "done"
    blockdevices,     \* blklist['blockdevices'] once parsed
    idx,              \* position of filter() in blockdevices
    filtered_output,  \* the devices _filter has let through so far
    commands,         \* argv of every run_command call, in order
    evals,            \* every predicate evaluation: device index, predicate, outcome
    result            \* what the invocation has emitted

vars == <<params, lsblk_host, pc, blockdevices, idx, filtered_output,
          commands, evals, result>>

NoResult ==
    [kind |-> "none", devices |-> <<>>, by_path |-> <<>>, by_name |-> <<>>,
     msg |-> ""]

\* module.fail_json(msg=...): a failure result; the process exits.
fail_json(msg) ==
    [kind |-> "fail_json", devices |-> <<>>, by_path |-> <<>>, by_name |-> <<>>,
     msg |-> msg]

\* An exception nobody catches: the interpreter dies with a traceback, and
\* neither exit_json nor fail_json has run.
uncaught(exc) ==
    [kind |-> "exception", devices |-> <<>>, by_path |-> <<>>, by_name |-> <<>>,
     msg |-> exc]

\* module.exit_json(devices=..., by_path=..., by_name=...)
exit_json(devices, by_path, by_name) ==
    [kind |-> "exit_json", devices |-> devices, by_path |-> by_path,
     by_name |-> by_name, msg |-> ""]

(***************************************************************************)
(* run_command: the host runs argv and hands back (rc, stdout, stderr).    *)
(***************************************************************************)
\* The device a path /dev/<name> names.
PathName(path) == SubSeq(path, Len("/dev/") + 1, Len(path))

run_command(cmd) ==
    CASE cmd[1] = "lsof" -> LsofHost[PathName(cmd[2])]
      [] cmd[1] = "wipefs" -> WipefsHost[PathName(cmd[2])]
      [] cmd[1] = "lsblk" -> lsblk_host

(***************************************************************************)
(* The four predicates.  Each gives [exc, msg, val, cmds]: the exception   *)
(* that left it ("" when it returned), fail_json's message, the value      *)
(* returned, and the commands it ran.                                      *)
(***************************************************************************)
Returned(val, cmds) == [exc |-> "", msg |-> "", val |-> val, cmds |-> cmds]

Raised(exc, msg, cmds) == [exc |-> exc, msg |-> msg, val |-> FALSE, cmds |-> cmds]

\* _is_open with the stdout test inverted (`rc == 0 and out`).
_is_open_inverted(device) ==
    LET cmd == <<"lsof", "/dev/" \o device["name"].s>>
        r == run_command(cmd)
    IN  IF r.err # ""
        THEN Raised("SystemExit", "Unable to run lsof. Error:" \o r.err, <<cmd>>)
        ELSE IF r.rc = 0 /\ r.out # ""
             THEN Returned(TRUE, <<cmd>>)
             ELSE Returned(FALSE, <<cmd>>)

\* BlkFilter._is_open
_is_open(device) ==
    LET cmd == <<"lsof", "/dev/" \o device["name"].s>>
        r == run_command(cmd)
    IN  IF r.err # ""
        THEN Raised("SystemExit", "Unable to run lsof. Error:" \o r.err, <<cmd>>)
        ELSE IF r.rc = 0 /\ r.out = ""
             THEN Returned(TRUE, <<cmd>>)
             ELSE Returned(FALSE, <<cmd>>)

\* _is_used that forgets the mountpoint.
_is_used_children_only(device) ==
    LET have_children == bool(dict_get(device, "children"))
    IN  Returned(have_children, <<>>)

\* BlkFilter._is_used
_is_used(device) ==
    LET have_children == bool(dict_get(device, "children"))
        have_mountpoint == bool(dict_get(device, "mountpoint"))
    IN  Returned(have_children \/ have_mountpoint, <<>>)

\* BlkFilter._is_blank
_is_blank(device) ==
    LET cmd == <<"wipefs", "/dev/" \o device["name"].s>>
        r == run_command(cmd)
    IN  IF r.rc # 0
        THEN Raised("SystemExit",
                    "Unable to run wipeof utility. Error:" \o r.err, <<cmd>>)
        ELSE Returned(~(r.out # ""), <<cmd>>)

\* The attributes of a dict object are its methods; its keys are not among
\* them.
DictAttributes ==
    {"clear", "copy", "fromkeys", "get", "items", "keys", "pop", "popitem",
     "setdefault", "update", "values"}

\* BlkFilter._is_rom: `device.type` is an attribute access, and device is a
\* dict of json.loads: the access raises AttributeError.  (A bound method
\* never equals the string 'rom'.)
_is_rom(device) ==
    IF "type" \in DictAttributes
    THEN Returned(FALSE, <<>>)
    ELSE Raised("AttributeError", "'dict' object has no attribute 'type'", <<>>)

Evaluate(pred, device) ==
    CASE pred = "is_used" -> _is_used(device)
      [] pred = "is_blank" -> _is_blank(device)
      [] pred = "is_open" -> _is_open(device)
      [] pred = "is_rom" -> _is_rom(device)

(***************************************************************************)
(* BlkFilter._filter.  st is the state of one call: passed, the exception  *)
(* that is propagating ("" when none), the commands run and the predicate  *)
(* evaluations made.                                                       *)
(***************************************************************************)
FilterStart ==
    [passed |-> TRUE, exc |-> "", msg |-> "", cmds |-> <<>>, evals |-> <<>>]

\* _filter_check with `passed = ...` in place of `passed &= ...`.
_filter_check_assign(pred, st, device) ==
    IF st.exc # "" THEN st
    ELSE IF params[pred] = PyNone THEN st
    ELSE LET r == Evaluate(pred, device)
             matched == r.exc = "" /\ PyBool(r.val) = params[pred]
         IN  [passed |-> IF r.exc = "" THEN matched ELSE st.passed,
              exc |-> r.exc,
              msg |-> r.msg,
              cmds |-> st.cmds \o r.cmds,
              evals |-> Append(st.evals,
                               [dev |-> device["name"].s, pred |-> pred,
                                exc |-> r.exc, val |-> r.val,
                                matched |-> matched])]

\* _filter_check without the `is not None` test: the predicate is evaluated
\* for an absent flag too.
_filter_check_unguarded(pred, st, device) ==
    IF st.exc # "" THEN st
    ELSE LET r == Evaluate(pred, device)
             matched == r.exc = "" /\ PyBool(r.val) = params[pred]
         IN  [passed |-> IF r.exc = "" THEN st.passed /\ matched ELSE st.passed,
              exc |-> r.exc,
              msg |-> r.msg,
              cmds |-> st.cmds \o r.cmds,
              evals |-> Append(st.evals,
                               [dev |-> device["name"].s, pred |-> pred,
                                exc |-> r.exc, val |-> r.val,
                                matched |-> matched])]

\* _filter_check as `passed = passed and ...`: nothing is evaluated once
\* passed is False.
_filter_check_shortcircuit(pred, st, device) ==
    IF st.exc # "" THEN st
    ELSE IF params[pred] = PyNone THEN st
    ELSE IF ~st.passed THEN st
    ELSE LET r == Evaluate(pred, device)
             matched == r.exc = "" /\ PyBool(r.val) = params[pred]
         IN  [passed |-> IF r.exc = "" THEN st.passed /\ matched ELSE st.passed,
              exc |-> r.exc,
              msg |-> r.msg,
              cmds |-> st.cmds \o r.cmds,
              evals |-> Append(st.evals,
                               [dev |-> device["name"].s, pred |-> pred,
                                exc |-> r.exc, val |-> r.val,
                                matched |-> matched])]

\* The same, for the claim about reordering.
_filter_check_lazy(pred, st, device) ==
    _filter_check_shortcircuit(pred, st, device)

\* One statement of _filter:
\*     if self.module.params[pred] is not None:
\*         passed &= self._is_<pred>(device) == self.module.params[pred]
\* `&=` has no short-circuit: the predicate is evaluated whatever passed is.
_filter_check(pred, st, device) ==
    IF st.exc # "" THEN st
    ELSE IF params[pred] = PyNone THEN st
    ELSE LET r == Evaluate(pred, device)
             matched == r.exc = "" /\ PyBool(r.val) = params[pred]
         IN  [passed |-> IF r.exc = "" THEN st.passed /\ matched ELSE st.passed,
              exc |-> r.exc,
              msg |-> r.msg,
              cmds |-> st.cmds \o r.cmds,
              evals |-> Append(st.evals,
                               [dev |-> device["name"].s, pred |-> pred,
                                exc |-> r.exc, val |-> r.val,
                                matched |-> matched])]

RECURSIVE FilterIn(_, _, _)
\* The statements of _filter for the predicates of `order`, one after another.
FilterIn(order, st, device) ==
    IF order = <<>> THEN st
    ELSE FilterIn(Tail(order), _filter_check(Head(order), st, device), device)

\* The order of the four statements in the source.
Checks == <<"is_used", "is_blank", "is_open", "is_rom">>

_filter(device) == FilterIn(Checks, FilterStart, device)

(***************************************************************************)
(* BlkFilter.run                                                           *)
(***************************************************************************)
RECURSIVE _prep_dev_list(_)
\* BlkFilter._prep_dev_list, after `if type(raw_devlist) == str` has wrapped
\* a string: the names, each with /dev/ in front unless it has it already.
_prep_dev_list(devlist) ==
    IF devlist = <<>> THEN <<>>
    ELSE <<IF ~startswith(Head(devlist), "/dev/")
           THEN "/dev/" \o Head(devlist)
           ELSE Head(devlist)>> \o _prep_dev_list(Tail(devlist))

\* `if type(raw_devlist) == str: raw_devlist = [raw_devlist]`
raw_devlist(v) == IF v.t = "str" THEN <<v.s>> ELSE v.l

\* The command line run() builds: the device arguments are added when
\* params has the key 'devices'.
lsblk_cmd ==
    <<"lsblk", "-O", "--json">>
    \o (IF "devices" \in DOMAIN params
        THEN _prep_dev_list(raw_devlist(params["devices"]))
        ELSE <<>>)

\* json.loads(out): the document, or JSONDecodeError.
json_loads(out) ==
    IF out.json THEN [exc |-> "", val |-> out.doc]
    ELSE [exc |-> "JSONDecodeError", val |-> [blockdevices |-> <<>>]]

RECURSIVE _by_path_bare(_)
\* _by_path without the /dev/ prefix.
_by_path_bare(devlist) ==
    IF devlist = <<>> THEN <<>>
    ELSE <<Head(devlist)["name"].s>> \o _by_path_bare(Tail(devlist))

RECURSIVE _by_path(_)
\* BlkFilter._by_path
_by_path(devlist) ==
    IF devlist = <<>> THEN <<>>
    ELSE <<"/dev/" \o Head(devlist)["name"].s>> \o _by_path(Tail(devlist))

RECURSIVE _by_name(_)
\* BlkFilter._by_name
_by_name(devlist) ==
    IF devlist = <<>> THEN <<>>
    ELSE <<Head(devlist)["name"].s>> \o _by_name(Tail(devlist))

Init ==
    /\ params \in { AnsibleModule(t) : t \in Tasks }
    /\ lsblk_host \in LsblkResults
    /\ pc = "run"
    /\ blockdevices = <<>>
    /\ idx = 1
    /\ filtered_output = <<>>
    /\ commands = <<>>
    /\ evals = <<>>
    /\ result = NoResult

\* run(), up to the parsed device list: build the command, run it with
\* check_rc=True (run_command itself calls fail_json on a non-zero exit, so
\* run's own `if rc != 0` never sees one), parse the output.
Run ==
    /\ pc = "run"
    /\ LET cmd == lsblk_cmd
           r == run_command(cmd)
           blklist == json_loads(r.out)
       IN  /\ commands' = Append(commands, cmd)
           /\ IF r.rc # 0
              THEN /\ result' = fail_json(r.err)
                   /\ pc' = "done"
                   /\ blockdevices' = blockdevices
              ELSE IF blklist.exc # ""
              THEN /\ result' = fail_json("Unable to parse lsblk output. Output: "
                                          \o r.out.text)
                   /\ pc' = "done"
                   /\ blockdevices' = blockdevices
              ELSE /\ result' = result
                   /\ pc' = "filter"
                   /\ blockdevices' = blklist.val.blockdevices
    /\ UNCHANGED <<params, lsblk_host, idx, filtered_output, evals>>

\* filter(self._filter, blklist['blockdevices']): the next device goes through
\* _filter and is kept when _filter returns True; fail_json or an exception
\* inside _filter ends the invocation.
Filter ==
    /\ pc = "filter"
    /\ idx <= Len(blockdevices)
    /\ LET device == blockdevices[idx]
           st == _filter(device)
       IN  /\ commands' = commands \o st.cmds
           /\ evals' = evals \o st.evals
           /\ IF st.exc = "SystemExit"
              THEN /\ result' = fail_json(st.msg)
                   /\ pc' = "done"
                   /\ UNCHANGED <<idx, filtered_output>>
              ELSE IF st.exc # ""
              THEN /\ result' = uncaught(st.exc)
                   /\ pc' = "done"
                   /\ UNCHANGED <<idx, filtered_output>>
              ELSE /\ filtered_output' =
                          IF st.passed THEN Append(filtered_output, device)
                          ELSE filtered_output
                   /\ idx' = idx + 1
                   /\ UNCHANGED <<result, pc>>
    /\ UNCHANGED <<params, lsblk_host, blockdevices>>

\* The end of run(): exit_json with the three lists.
Exit ==
    /\ pc = "filter"
    /\ idx > Len(blockdevices)
    /\ result' = exit_json(filtered_output, _by_path(filtered_output),
                           _by_name(filtered_output))
    /\ pc' = "done"
    /\ UNCHANGED <<params, lsblk_host, blockdevices, idx, filtered_output,
                   commands, evals>>

Next == Run \/ Filter \/ Exit

Spec == Init /\ [][Next]_vars

\* The invocations of tasks that name no device: lsblk lists the whole host.
InitWholeHost ==
    /\ Init
    /\ params["name"] = PyNone

SpecWholeHost == InitWholeHost /\ [][Next]_vars

(***************************************************************************)
(* Properties.  The predicates below state what the specification says of  *)
(* each device, from the lsblk record and the tools' answers, without      *)
(* going through the module's code.                                        *)
(***************************************************************************)
HasChildren(d) ==
    /\ "children" \in DOMAIN d
    /\ d["children"].t = "list"
    /\ Len(d["children"].l) > 0

HasMountpoint(d) ==
    /\ "mountpoint" \in DOMAIN d
    /\ d["mountpoint"].t = "str"
    /\ Len(d["mountpoint"].s) > 0

PredicateValue(pred, d) ==
    CASE pred = "is_used" -> HasChildren(d) \/ HasMountpoint(d)
      [] pred = "is_blank" -> WipefsHost[d["name"].s].out = ""
      [] pred = "is_open" -> /\ LsofHost[d["name"].s].rc = 0
                             /\ LsofHost[d["name"].s].out = ""
      [] pred = "is_rom" -> d["type"].s = "rom"

SatisfiesRequest(d) ==
    \A f \in FlagNames :
        params[f] # PyNone => params[f] = PyBool(PredicateValue(f, d))

Present == { f \in FlagNames : params[f] # PyNone }

Names(devlist) == [i \in DOMAIN devlist |-> devlist[i]["name"].s]

\* C1: a successful invocation returns in `devices` exactly the top-level
\* devices, in lsblk's order, for which every present flag equals the value
\* of its predicate; an absent flag excludes nothing.
C1_FilterContract ==
    result.kind = "exit_json" =>
        result.devices = SelectSeq(blockdevices, SatisfiesRequest)

\* A success under three present flags that keeps one device of two.
C1_Witness ==
    /\ result.kind = "exit_json"
    /\ {"is_used", "is_blank", "is_open"} \subseteq Present
    /\ Len(blockdevices) = 2
    /\ Len(result.devices) = 1

\* C2: every invocation ends as a success result or as a failure with a
\* message; a non-zero lsblk exit, lsblk output that is not JSON, a non-zero
\* wipefs exit and lsof output on stderr each end it as a failure with no
\* device list.
C2_SuccessOrFailure ==
    pc = "done" =>
        /\ result.kind \in {"exit_json", "fail_json"}
        /\ result.kind = "fail_json" =>
              /\ result.msg # ""
              /\ result.devices = <<>>
        /\ ( \/ lsblk_host.rc # 0
             \/ ~lsblk_host.out.json
             \/ \E i \in DOMAIN commands :
                   /\ commands[i][1] = "wipefs"
                   /\ WipefsHost[PathName(commands[i][2])].rc # 0
             \/ \E i \in DOMAIN commands :
                   /\ commands[i][1] = "lsof"
                   /\ LsofHost[PathName(commands[i][2])].err # "" )
           => result.kind = "fail_json"

\* C3: is_rom(D) is (D.type = "rom") for every device and runs no command;
\* for sda (disk) and sr0 (rom) the request {is_rom: false} succeeds with
\* devices = [sda], by_path = [/dev/sda], by_name = [sda].
C3_IsRom ==
    /\ \A i \in DOMAIN evals :
          evals[i].pred = "is_rom" =>
              /\ evals[i].exc = ""
              /\ evals[i].val = (BlockDevice[evals[i].dev]["type"].s = "rom")
    /\ ( /\ pc = "done"
         /\ Names(blockdevices) = <<"sda", "sr0">>
         /\ Present = {"is_rom"}
         /\ params["is_rom"] = PyBool(FALSE) )
       => /\ result.kind = "exit_json"
          /\ Names(result.devices) = <<"sda">>
          /\ result.by_path = <<"/dev/sda">>
          /\ result.by_name = <<"sda">>
          /\ Len(commands) = 1

\* The names a task supplies, under `name` or an alias: params['name'].
SuppliedNames == IF params["name"] = PyNone THEN <<>> ELSE params["name"].l

Prefixed(l) ==
    [i \in DOMAIN l |-> IF startswith(l[i], "/dev/") THEN l[i]
                        ELSE "/dev/" \o l[i]]

\* C4: lsblk is invoked with the supplied names (option `name` or either
\* alias) as extra arguments, in order, each with /dev/ in front unless it
\* has it already, and with no device argument when none is supplied.
C4_LsblkArguments ==
    pc # "run" =>
        commands[1] = <<"lsblk", "-O", "--json">> \o Prefixed(SuppliedNames)

CommandsOf(tool) == { i \in DOMAIN commands : commands[i][1] = tool }

\* C5: wipefs runs only when is_blank is present, lsof only when is_open is
\* present; with both absent the invocation runs lsblk once and nothing else.
C5_LazyTools ==
    /\ params["is_blank"] = PyNone => CommandsOf("wipefs") = {}
    /\ params["is_open"] = PyNone => CommandsOf("lsof") = {}
    /\ Cardinality(CommandsOf("lsblk")) = (IF pc = "run" THEN 0 ELSE 1)
    /\ (params["is_blank"] = PyNone /\ params["is_open"] = PyNone /\ pc # "run")
       => Len(commands) = 1

\* A finished filtering of two devices under is_used alone: each tool ran
\* for no device.
C5_Witness ==
    /\ result.kind = "exit_json"
    /\ Len(blockdevices) = 2
    /\ Present = {"is_used"}
    /\ Len(commands) = 1

IsSubsequence(sub, full) ==
    \E f \in [DOMAIN sub -> DOMAIN full] :
        /\ \A i, j \in DOMAIN sub : i < j => f[i] < f[j]
        /\ \A i \in DOMAIN sub : sub[i] = full[f[i]]

\* C7: in a successful result the three lists have one length, devices is a
\* subsequence of lsblk's list in lsblk's order, by_name[i] is the name of
\* devices[i] and by_path[i] is "/dev/" followed by it.
C7_ResultLists ==
    result.kind = "exit_json" =>
        /\ Len(result.by_path) = Len(result.devices)
        /\ Len(result.by_name) = Len(result.devices)
        /\ IsSubsequence(result.devices, blockdevices)
        /\ \A i \in DOMAIN result.devices :
              /\ result.by_name[i] = result.devices[i]["name"].s
              /\ result.by_path[i] = "/dev/" \o result.devices[i]["name"].s

\* A success that keeps two devices under a present flag.
C7_Witness ==
    /\ result.kind = "exit_json"
    /\ Present # {}
    /\ Len(result.devices) = 2

\* C8: is_used(D) is false for a device with no children and no mountpoint
\* and true for one with a child or a non-empty mountpoint; {is_used: false}
\* over the one device sdb mounted on /mnt/data succeeds with three empty
\* lists.
C8_IsUsed ==
    /\ \A i \in DOMAIN evals :
          evals[i].pred = "is_used" =>
              LET d == BlockDevice[evals[i].dev]
              IN  /\ evals[i].exc = ""
                  /\ (~HasChildren(d) /\ ~HasMountpoint(d)) => ~evals[i].val
                  /\ (HasChildren(d) \/ HasMountpoint(d)) => evals[i].val
    /\ ( /\ pc = "done"
         /\ Names(blockdevices) = <<"sdb">>
         /\ Present = {"is_used"}
         /\ params["is_used"] = PyBool(FALSE) )
       => /\ result.kind = "exit_json"
          /\ result.devices = <<>>
          /\ result.by_path = <<>>
          /\ result.by_name = <<>>

\* The mounted device sdb went through {is_used: false}.
C8_Witness ==
    /\ pc = "done"
    /\ Names(blockdevices) = <<"sdb">>
    /\ Present = {"is_used"}
    /\ params["is_used"] = PyBool(FALSE)
    /\ Len(evals) = 1
    /\ evals[1].val

\* The evaluations made for the device called n, in order.
EvalsOf(n) == SelectSeq(evals, LAMBDA e : e.dev = n)

Preds(es) == [i \in DOMAIN es |-> es[i].pred]

\* The present predicates in the order of the source.
PresentChecks == SelectSeq(Checks, LAMBDA f : params[f] # PyNone)

IsPrefix(p, full) ==
    /\ Len(p) <= Len(full)
    /\ SubSeq(full, 1, Len(p)) = p

\* The commands the evaluations es ran.
ToolCommands(es) ==
    LET tools == SelectSeq(es, LAMBDA e : e.pred \in {"is_blank", "is_open"})
    IN  [i \in DOMAIN tools |->
            <<IF tools[i].pred = "is_blank" THEN "wipefs" ELSE "lsof",
              "/dev/" \o tools[i].dev>>]

\* C9 as stated: once a present check has failed for a device, no further
\* predicate is evaluated and no further tool is run for that device.
C9_ShortCircuit ==
    \A j, k \in DOMAIN evals :
        (j < k /\ evals[j].dev = evals[k].dev) => evals[j].matched

\* C9 as amended: there is no short-circuit.  For a device _filter has
\* returned for, every present predicate was evaluated, in the order is_used,
\* is_blank, is_open, is_rom, whatever the earlier checks gave; for the device
\* _filter was aborted on, the evaluations are a prefix of that order ending
\* with the one that failed the invocation; and the tools run are exactly
\* wipefs for each is_blank evaluation and lsof for each is_open one.
C9_NoShortCircuit ==
    /\ \A i \in DOMAIN blockdevices :
          LET es == EvalsOf(blockdevices[i]["name"].s)
          IN  IF i < idx
              THEN /\ Preds(es) = PresentChecks
                   /\ \A j \in DOMAIN es : es[j].exc = ""
              ELSE IF i = idx /\ pc = "done"
              THEN /\ es # <<>>
                   /\ IsPrefix(Preds(es), PresentChecks)
                   /\ \A j \in DOMAIN es : (es[j].exc # "") <=> (j = Len(es))
                   /\ result.kind \in {"fail_json", "exception"}
              ELSE es = <<>>
    /\ pc # "run" => Tail(commands) = ToolCommands(evals)

\* For one device the is_used check failed and wipefs and lsof were run
\* all the same.
C9_Witness ==
    \E i \in DOMAIN blockdevices :
        LET es == EvalsOf(blockdevices[i]["name"].s)
        IN  /\ i < idx
            /\ Preds(es) = <<"is_used", "is_blank", "is_open">>
            /\ ~es[1].matched
            /\ Len(commands) >= 3

(***************************************************************************)
(* Reordering.  The invocation with the predicates tried in the order po   *)
(* and the devices visited in the order do (positions in blockdevices),    *)
(* against the same host: it stops at the first predicate that fails the   *)
(* invocation, and otherwise keeps the positions _filter lets through.     *)
(***************************************************************************)
RECURSIVE VisitIn(_, _, _)
VisitIn(po, do, acc) ==
    IF acc.failed \/ do = <<>> THEN acc
    ELSE LET st == FilterIn(po, FilterStart, blockdevices[Head(do)])
         IN  VisitIn(po, Tail(do),
                     IF st.exc # "" THEN [failed |-> TRUE, kept |-> {}]
                     ELSE [failed |-> FALSE,
                           kept |-> IF st.passed THEN acc.kept \cup {Head(do)}
                                    ELSE acc.kept])

Orders(S) ==
    { f \in [1..Cardinality(S) -> S] : \A i, j \in DOMAIN f : i # j => f[i] # f[j] }

\* Every order of the present predicates (an absent one is evaluated in no
\* order).
PredOrders == Orders(Present)

\* The outcome of an invocation: failure, or the devices returned.
OutcomeIn(po, do) ==
    LET v == VisitIn(po, do, [failed |-> FALSE, kept |-> {}])
        kept == SelectSeq([i \in DOMAIN blockdevices |-> i], LAMBDA i : i \in v.kept)
    IN  IF v.failed THEN [kind |-> "failure", names |-> <<>>]
        ELSE [kind |-> "success", names |-> [i \in DOMAIN kept |-> blockdevices[kept[i]]["name"].s]]

Outcome ==
    IF result.kind = "exit_json"
    THEN [kind |-> "success", names |-> result.by_name]
    ELSE [kind |-> "failure", names |-> <<>>]

\* C10: once lsblk has given its list, the outcome of the invocation (the
\* same devices, or failure) is what every order of the predicates and every
\* order of the devices gives against the same host.
C10_OrderIndependent ==
    (pc = "done" /\ lsblk_host.rc = 0 /\ lsblk_host.out.json) =>
        \A po \in PredOrders :
            \A do \in Orders(DOMAIN blockdevices) :
                OutcomeIn(po, do) = Outcome

\* An invocation over two devices that failed on the second one's wipefs
\* after the first device's is_used check had failed.
C10_Witness ==
    /\ pc = "done"
    /\ Len(blockdevices) = 2
    /\ {"is_used", "is_blank"} \subseteq Present
    /\ result.kind = "fail_json"
    /\ idx = 2
    /\ \E j \in DOMAIN evals : evals[j].exc = "" /\ ~evals[j].matched

====
